---------------------------- MODULE Spec2Model ----------------------------
(***************************************************************************)
(* A model of the stream telemetry engine of the multiview application:    *)
(* MockStreamService (services/mockStreamService.ts) and the useMultiview  *)
(* composable that consumes it.                                            *)
(*                                                                         *)
(* JavaScript runs every handler to completion on one thread, so a handler *)
(* is one action.  The one place where foreign code runs inside a handler  *)
(* is the broadcast of a tick: listeners.forEach calls each observer, and  *)
(* an observer may call the service again or raise.  The tick is therefore *)
(* split at the observer calls: pc = "callback" while an observer runs.    *)
(*                                                                         *)
(* Objects are modelled with their identity: the registry is an array of   *)
(* references into a heap of StreamMetadata objects, so that a reference   *)
(* handed to a caller can be told from a copy.                             *)
(*                                                                         *)
(* Units: bitrate is kept in tenths of Mbps (the code rounds to one        *)
(* decimal), frame rates in hundredths of fps, time in timer periods.      *)
(***************************************************************************)
EXTENDS Integers, Sequences, FiniteSets, TLC

(***************************************************************************)
(* Bounds of the model.                                                    *)
(***************************************************************************)
\* subscribe() calls over a run
MaxSubs == 3
\* timer firings over a run
MaxTicks == 2
\* records of the registry (the code seeds 16)
NumStreams == 2
\* records of the registry where the grid layouts are exercised
NumViewStreams == 5
\* records of the registry where the draws of the tick are exercised
NumTelemetryStreams == 1
\* timer firings over a run where bitrate and latency drift
MaxDriftTicks == 3
\* instants that pass over a run without the timer firing
MaxElapse == 2
\* timer firings over a run where the mutators are exercised
MaxRegistryTicks == 1
\* entries of the levels array a level display is given
MaxLevels == 8

VARIABLES
  streams,         \* this.streams: array of references to StreamMetadata objects
  heap,            \* the StreamMetadata objects, by reference
  updateInterval,  \* this.updateInterval: 0 for null, else the timer handle
  timers,          \* the interval timers that are active in the host
  listeners,       \* this.listeners: array of [cb, tok]; tok names the push
  issued,          \* issued[t]: the listener captured by the t-th unsubscribe closure
  now,             \* the number of times the timer has fired
  clock,           \* the time new Date() gives, in instants: one passes up to
                   \* each firing of the timer, and others may pass between
  pc,              \* "idle", or "callback" while forEach is inside an observer
  k,               \* forEach: index of the observer being called (1-based)
  len,             \* forEach: the length read when the loop began
  detached,        \* <<a>> when destroy() replaced this.listeners under a running
                   \* forEach, which keeps iterating the old array a; else << >>
  log,             \* history: the entries called so far in this broadcast
  atStart,         \* history: this.listeners when this broadcast began
  tokAtStart,      \* history: Len(issued) when this broadcast began
  touched,         \* history: the hub was changed during this broadcast
  cancelled,       \* history: tokens whose own unsubscribe closure has been called
  cancelledNow,    \* history: those of them first called during this broadcast
  streamsRef,      \* useMultiview: streams.value, the array the rendering layer
                   \* holds: the engine's own array (live) or an array of its own
  recRef,          \* a StreamMetadata reference a caller holds (0: none)
  currentLayout,   \* useMultiview: currentLayout.value
  selectedStreamId,\* useMultiview: selectedStreamId.value
  globalMute,      \* useMultiview: globalMute.value
  masterVolume,    \* useMultiview: masterVolume.value
  viewUnsub,       \* useMultiview: unsubscribe (0 for null, else the closure's token)
  bars,            \* AudioLevelBars: audioLevels.value as last computed (<< >>: not yet)
  lastCall         \* history: the last call of the mutation API or of a
                   \* useMultiview handler, [op, id]

hubVars == <<updateInterval, timers, listeners, issued, now, clock, pc, k, len, detached>>
histVars == <<log, atStart, tokAtStart, touched, cancelled, cancelledNow>>
regVars == <<streams, heap>>
viewVars == <<streamsRef, recRef, currentLayout, selectedStreamId, globalMute,
              masterVolume, viewUnsub, bars>>
vars == <<regVars, hubVars, histVars, viewVars, lastCall>>

(***************************************************************************)
(* Arithmetic and array helpers, as the code uses them.                    *)
(***************************************************************************)
\* Mutant of Min: the second argument, whatever the first.
MinOff(a, b) == b

Min(a, b) == IF a < b THEN a ELSE b

\* Mutant of Max: the second argument, whatever the first.
MaxOff(a, b) == b

Max(a, b) == IF a > b THEN a ELSE b

\* Array.prototype.indexOf on this.listeners: the first index holding the
\* function `cb` (strict equality of function references), 0 when absent
\* (JavaScript's -1).
IndexOf(arr, cb) ==
  IF \E i \in 1..Len(arr) : arr[i].cb = cb
  THEN CHOOSE i \in 1..Len(arr) :
         /\ arr[i].cb = cb
         /\ \A j \in 1..(i - 1) : arr[j].cb # cb
  ELSE 0

\* Mutant of Splice: splice(index + 1, 1), which takes out the entry after
\* the one found (nothing when the one found is the last).
SpliceNext(arr, i) ==
  IF i + 1 > Len(arr) THEN arr
  ELSE [j \in 1..(Len(arr) - 1) |-> IF j < i + 1 THEN arr[j] ELSE arr[j + 1]]

\* Array.prototype.splice(index, 1)
Splice(arr, i) == [j \in 1..(Len(arr) - 1) |-> IF j < i THEN arr[j] ELSE arr[j + 1]]

\* Mutant of Push: unshift, which puts the new entry first.
Unshift(arr, e) == <<e>> \o arr

\* Array.prototype.push
Push(arr, e) == Append(arr, e)

\* Array.prototype.find on this.streams: the first record with that id,
\* 0 when there is none (JavaScript's undefined).
\* Mutant of FindIn: find(...) || arr[0], which falls back to the first record.
FindOrFirst(arr, h, id) ==
  IF \E i \in 1..Len(arr) : h[arr[i]].id = id
  THEN arr[CHOOSE i \in 1..Len(arr) :
         /\ h[arr[i]].id = id
         /\ \A j \in 1..(i - 1) : h[arr[j]].id # id]
  ELSE IF Len(arr) > 0 THEN arr[1] ELSE 0

FindIn(arr, h, id) ==
  IF \E i \in 1..Len(arr) : h[arr[i]].id = id
  THEN arr[CHOOSE i \in 1..Len(arr) :
         /\ h[arr[i]].id = id
         /\ \A j \in 1..(i - 1) : h[arr[j]].id # id]
  ELSE 0

FindStream(id) == FindIn(streams, heap, id)

(***************************************************************************)
(* The registry: generateMockStream and initializeMockStreams.             *)
(***************************************************************************)
streamConfigs ==
  << [id |-> "cam-01", name |-> "Camera 1 - Main Stage"],
     [id |-> "cam-02", name |-> "Camera 2 - Audience"],
     [id |-> "cam-03", name |-> "Camera 3 - Close-up"],
     [id |-> "cam-04", name |-> "Camera 4 - Wide Shot"],
     [id |-> "gfx-01", name |-> "Graphics - Lower Thirds"],
     [id |-> "gfx-02", name |-> "Graphics - Overlay"],
     [id |-> "aud-01", name |-> "Audio Board Feed"],
     [id |-> "rec-01", name |-> "Recording Playback"],
     [id |-> "ext-01", name |-> "External Feed 1"],
     [id |-> "ext-02", name |-> "External Feed 2"],
     [id |-> "mon-01", name |-> "Monitoring - Program"],
     [id |-> "mon-02", name |-> "Monitoring - Preview"],
     [id |-> "iso-01", name |-> "ISO Recording 1"],
     [id |-> "iso-02", name |-> "ISO Recording 2"],
     [id |-> "rem-01", name |-> "Remote Feed - Studio B"],
     [id |-> "rem-02", name |-> "Remote Feed - OB Unit"] >>

\* One draw of the random choices of generateMockStream.
generateMockStream(id, name, seed) ==
  [ id |-> id,
    name |-> name,
    url |-> <<"https://example.com/stream/", id>>,
    status |-> seed.status,
    resolution |-> seed.resolution,
    bitrate |-> seed.bitrate,
    latency |-> seed.latency,
    frameRate |-> seed.frameRate,
    audio |-> [ channels |-> seed.channels,
                sampleRate |-> 48000,
                levels |-> seed.levels,
                muted |-> FALSE ],
    lastUpdate |-> 0,
    visible |-> TRUE,
    sourceId |-> id ]

\* A seed the generator can draw: 1080p, active, 35.0 Mbps, 70 ms, 25 fps, stereo.
PlainSeed ==
  [ status |-> "active",
    resolution |-> [width |-> 1920, height |-> 1080],
    bitrate |-> 350,
    latency |-> 70,
    frameRate |-> 2500,
    channels |-> 2,
    levels |-> <<50, 50, 50, 50>> ]

\* The registry of the first n entries of streamConfigs (the code has 16).
initializeMockStreams(n, seeds) ==
  /\ streams = [i \in 1..n |-> i]
  /\ heap = [i \in 1..n |->
              generateMockStream(streamConfigs[i].id, streamConfigs[i].name, seeds[i])]

(***************************************************************************)
(* The tick: the body of the setInterval callback, up to the broadcast.    *)
(***************************************************************************)
\* Mutant of UpdateLevel: the drift without the clamp.
UpdateLevelUnclamped(level, variation, snap) ==
  IF snap = "peak" THEN 95
  ELSE IF snap = "silence" THEN 5
  ELSE level + variation

\* One level of stream.audio.levels.map(...): `variation` is
\* (Math.random() - 0.5) * 20 and `snap` the outcome of the two draws of the
\* "occasional peaks and silence" line.
UpdateLevel(level, variation, snap) ==
  LET newLevel == Max(0, Min(100, level + variation))
  IN  IF snap = "peak" THEN 95
      ELSE IF snap = "silence" THEN 5
      ELSE newLevel

\* Mutant of UpdateStream: a tick that applies the global mute flag again.
UpdateStreamUnderGlobalMute(stream, draw, t) ==
  [ stream EXCEPT
      !.audio.levels = [i \in 1..Len(stream.audio.levels) |->
                          UpdateLevel(stream.audio.levels[i],
                                      draw.lv[i].variation, draw.lv[i].snap)],
      !.audio.muted = @ \/ globalMute,
      !.lastUpdate = t ]

\* Mutant of UpdateStream: a tick that passes over hidden records.
UpdateStreamIfVisible(stream, draw, t) ==
  IF stream.visible
  THEN [ stream EXCEPT
           !.audio.levels = [i \in 1..Len(stream.audio.levels) |->
                               UpdateLevel(stream.audio.levels[i],
                                           draw.lv[i].variation, draw.lv[i].snap)],
           !.lastUpdate = t ]
  ELSE stream

\* Mutant of UpdateStream: a tick that silences the levels of muted records.
UpdateStreamSilencingMuted(stream, draw, t) ==
  [ stream EXCEPT
      !.audio.levels = [i \in 1..Len(stream.audio.levels) |->
                          IF stream.audio.muted THEN 0
                          ELSE UpdateLevel(stream.audio.levels[i],
                                           draw.lv[i].variation, draw.lv[i].snap)],
      !.bitrate = IF draw.drift THEN stream.bitrate + draw.db ELSE stream.bitrate,
      !.latency = IF draw.drift THEN Max(10, stream.latency + draw.dl)
                  ELSE stream.latency,
      !.lastUpdate = t ]

\* Mutant of UpdateStream: a tick that shows every record again.
UpdateStreamShowingAll(stream, draw, t) ==
  [ stream EXCEPT
      !.audio.levels = [i \in 1..Len(stream.audio.levels) |->
                          UpdateLevel(stream.audio.levels[i],
                                      draw.lv[i].variation, draw.lv[i].snap)],
      !.bitrate = IF draw.drift THEN stream.bitrate + draw.db ELSE stream.bitrate,
      !.latency = IF draw.drift THEN Max(10, stream.latency + draw.dl)
                  ELSE stream.latency,
      !.visible = TRUE,
      !.lastUpdate = t ]

\* The update of one record: draw.lv[i] is the draw of level i, draw.drift
\* whether Math.random() > 0.9, draw.db and draw.dl the bitrate and latency
\* deltas.
UpdateStream(stream, draw, t) ==
  [ stream EXCEPT
      !.audio.levels = [i \in 1..Len(stream.audio.levels) |->
                          UpdateLevel(stream.audio.levels[i],
                                      draw.lv[i].variation, draw.lv[i].snap)],
      !.bitrate = IF draw.drift THEN stream.bitrate + draw.db ELSE stream.bitrate,
      !.latency = IF draw.drift THEN Max(10, stream.latency + draw.dl)
                  ELSE stream.latency,
      !.lastUpdate = t ]

\* Mutant of UpdateAll: a loop that stops one record short.
UpdateAllButLast(draws, t) ==
  [r \in DOMAIN heap |->
     IF \E i \in 1..(Len(streams) - 1) : streams[i] = r
     THEN UpdateStream(heap[r], draws[r], t)
     ELSE heap[r]]

\* this.streams.forEach(stream => ...): every record of the array is updated.
UpdateAll(draws, t) ==
  [r \in DOMAIN heap |->
     IF \E i \in 1..Len(streams) : streams[i] = r
     THEN UpdateStream(heap[r], draws[r], t)
     ELSE heap[r]]

\* A seed whose levels lie at the ends of what Math.random() * 100 gives.
EdgeSeed ==
  [ status |-> "inactive",
    resolution |-> [width |-> 1280, height |-> 720],
    bitrate |-> 100,
    latency |-> 20,
    frameRate |-> 2997,
    channels |-> 8,
    levels |-> <<0, 5, 95, 99>> ]

\* A draw whose four levels all take the same variation and no snap.
LevelDraw(variation) ==
  [ lv |-> [i \in 1..4 |-> [variation |-> variation, snap |-> "none"]],
    drift |-> FALSE, db |-> 0, dl |-> 0 ]

\* A draw with a fall, a silence, a peak and a rise.
SnapDraw ==
  [ lv |-> << [variation |-> -10, snap |-> "none"],
              [variation |-> 0, snap |-> "silence"],
              [variation |-> 0, snap |-> "peak"],
              [variation |-> 9, snap |-> "none"] >>,
    drift |-> FALSE, db |-> 0, dl |-> 0 ]

\* A draw where Math.random() > 0.9 holds: db is the change of the bitrate
\* after rounding, in tenths of Mbps, and dl is Math.floor((Math.random() - 0.5) * 20).
DriftDraw(db, dl) ==
  [ lv |-> [i \in 1..4 |-> [variation |-> 0, snap |-> "none"]],
    drift |-> TRUE, db |-> db, dl |-> dl ]

\* A draw that leaves levels, bitrate and latency as they are.
QuietDraw ==
  [ lv |-> [i \in 1..4 |-> [variation |-> 0, snap |-> "none"]],
    drift |-> FALSE, db |-> 0, dl |-> 0 ]

(***************************************************************************)
(* Arrays of records in the hands of a caller.                             *)
(***************************************************************************)
\* The listener useMultiview.initialize subscribes.
ViewCb == "view"

\* A reference to this.streams itself: what a broadcast hands to observers.
LiveRef == [live |-> TRUE, elems |-> << >>]

\* A reference to a new array holding the references `arr` holds.
CopyRef(arr) == [live |-> FALSE, elems |-> arr]

\* The contents of the array a reference denotes.
Deref(ref) == IF ref.live THEN streams ELSE ref.elems

(***************************************************************************)
(* The broadcast: this.listeners.forEach(listener => listener(this.streams)) *)
(***************************************************************************)
\* The array forEach iterates: this.listeners, unless destroy() replaced it.
IterArr == IF detached = << >> THEN listeners ELSE detached[1]

\* forEach visits index i when i is below the length read at the start and
\* the array still has that index.
Visits(i, arr) == i <= len /\ i <= Len(arr)

ResetHistory ==
  /\ log' = << >>
  /\ atStart' = << >>
  /\ tokAtStart' = 0
  /\ touched' = FALSE
  /\ cancelledNow' = {}

EndBroadcast ==
  /\ pc' = "idle"
  /\ k' = 0
  /\ len' = 0
  /\ detached' = << >>
  /\ ResetHistory

\* The timer fires, for at most `limit` times over a run: all records are
\* updated and stamped with the time of the firing, then the broadcast begins.
TimerFireUpTo(DrawSet, limit) ==
  /\ pc = "idle"
  /\ timers # {}
  /\ now < limit
  /\ now' = now + 1
  /\ clock' = clock + 1
  /\ \E draws \in [DOMAIN heap -> DrawSet] : heap' = UpdateAll(draws, clock')
  /\ UNCHANGED <<streams, updateInterval, timers, listeners, issued, cancelled, viewVars, lastCall>>
  /\ IF Len(listeners) >= 1
     THEN /\ pc' = "callback"
          /\ k' = 1
          /\ len' = Len(listeners)
          /\ detached' = << >>
          /\ log' = <<listeners[1]>>
          /\ atStart' = listeners
          /\ tokAtStart' = Len(issued)
          /\ touched' = FALSE
          /\ cancelledNow' = {}
     ELSE EndBroadcast

TimerFire(DrawSet) == TimerFireUpTo(DrawSet, MaxTicks)

\* Time passes between two handlers without the timer firing.
Elapse ==
  /\ pc = "idle"
  /\ clock - now < MaxElapse
  /\ clock' = clock + 1
  /\ UNCHANGED <<regVars, updateInterval, timers, listeners, issued, now, pc, k, len,
                 detached, histVars, viewVars, lastCall>>

\* The observer being called returns: forEach goes on to the next index it
\* visits, or ends.  The observer of useMultiview has by then stored the array
\* it was handed, this.streams itself, in streams.value.
CallbackReturns ==
  /\ pc = "callback"
  /\ streamsRef' = IF log[Len(log)].cb = ViewCb THEN LiveRef ELSE streamsRef
  /\ UNCHANGED <<regVars, updateInterval, timers, listeners, issued, now, clock, cancelled,
                 recRef, currentLayout, selectedStreamId, globalMute, masterVolume,
                 viewUnsub, bars, lastCall>>
  /\ IF Visits(k + 1, IterArr)
     THEN /\ k' = k + 1
          /\ log' = Append(log, IterArr[k + 1])
          /\ UNCHANGED <<pc, len, detached, atStart, tokAtStart, touched, cancelledNow>>
     ELSE EndBroadcast

\* The observer being called raises: nothing catches the exception, so it
\* leaves forEach and the timer callback.  The interval timer stays armed.
CallbackThrows ==
  /\ pc = "callback"
  /\ log[Len(log)].cb # ViewCb
  /\ UNCHANGED <<regVars, updateInterval, timers, listeners, issued, now, clock, cancelled,
                 viewVars, lastCall>>
  /\ EndBroadcast

(***************************************************************************)
(* subscribe, the unsubscribe closure, destroy.  Each may be called between *)
(* ticks or from inside an observer.                                       *)
(***************************************************************************)
Touch(changed) == touched' = (touched \/ (pc = "callback" /\ changed))

\* Code outside the service runs between handlers or inside an observer; the
\* observer of useMultiview calls nothing.
CallerRuns == IF pc = "idle" THEN TRUE ELSE log[Len(log)].cb # ViewCb

\* The body of subscribe; the closure it returns is issued[Len(issued')].
Subscribed(cb) ==
  /\ listeners' = Push(listeners, [cb |-> cb, tok |-> Len(issued) + 1])
  /\ issued' = Append(issued, cb)
  /\ Touch(TRUE)

subscribe(cb) ==
  /\ CallerRuns
  /\ Len(issued) < MaxSubs
  /\ Subscribed(cb)
  /\ UNCHANGED <<regVars, updateInterval, timers, now, clock, pc, k, len, detached,
                 log, atStart, tokAtStart, cancelled, cancelledNow, viewVars, lastCall>>

\* The closure returned by the t-th subscribe call.
unsubscribe(t) ==
  LET index == IndexOf(listeners, issued[t])
  IN  /\ CallerRuns
      /\ t \in 1..Len(issued)
      /\ listeners' = IF index > 0 THEN Splice(listeners, index) ELSE listeners
      /\ Touch(index > 0)
      /\ cancelled' = cancelled \cup {t}
      /\ cancelledNow' = IF pc = "callback" /\ t \notin cancelled
                         THEN cancelledNow \cup {t} ELSE cancelledNow
      /\ UNCHANGED <<regVars, updateInterval, timers, issued, now, clock, pc, k, len,
                     detached, log, atStart, tokAtStart, viewVars, lastCall>>

\* History of a destroy call: whether it found the service already shut down
\* by a destroy, and how many subscribe calls had been made by then.
DestroyCall ==
  [ op |-> "destroy", id |-> "",
    again |-> lastCall.op = "destroy" /\ updateInterval = 0 /\ listeners = << >>,
    subs |-> Len(issued) ]

\* Mutant of destroy: the observers are dropped but the interval stays armed.
destroyOnlyListeners ==
  /\ CallerRuns
  /\ lastCall' = DestroyCall
  /\ listeners' = << >>
  /\ detached' = IF pc = "callback" /\ detached = << >> THEN <<listeners>> ELSE detached
  /\ Touch(TRUE)
  /\ UNCHANGED <<regVars, timers, updateInterval, issued, now, clock, pc, k, len, log,
                 atStart, tokAtStart, cancelled, cancelledNow, viewVars>>

\* Mutant of destroy: the handle is forgotten but the interval is not cleared.
destroyWithoutClear ==
  /\ CallerRuns
  /\ lastCall' = DestroyCall
  /\ updateInterval' = 0
  /\ listeners' = << >>
  /\ detached' = IF pc = "callback" /\ detached = << >> THEN <<listeners>> ELSE detached
  /\ Touch(TRUE)
  /\ UNCHANGED <<regVars, timers, issued, now, clock, pc, k, len, log, atStart, tokAtStart,
                 cancelled, cancelledNow, viewVars>>

destroy ==
  /\ CallerRuns
  /\ lastCall' = DestroyCall
  /\ IF updateInterval # 0
     THEN /\ timers' = timers \ {updateInterval}
          /\ updateInterval' = 0
     ELSE UNCHANGED <<timers, updateInterval>>
  /\ listeners' = << >>
  /\ detached' = IF pc = "callback" /\ detached = << >> THEN <<listeners>> ELSE detached
  /\ Touch(TRUE)
  /\ UNCHANGED <<regVars, issued, now, clock, pc, k, len, log, atStart, tokAtStart,
                 cancelled, cancelledNow, viewVars>>

(***************************************************************************)
(* The query methods and the mutation API of the service.                  *)
(***************************************************************************)
\* getStreams(): [...this.streams], a new array of the same references.
getStreams == CopyRef(streams)

\* getStream(id): the record object itself, 0 for undefined.
getStream(id) == FindStream(id)

\* audio.muted of the record of the registry with this id (FALSE: no record).
MutedOf(id) ==
  \E i \in 1..Len(streams) : heap[streams[i]].id = id /\ heap[streams[i]].audio.muted

\* History of a toggleStreamMute call: when it was made, the audio.muted and
\* the global flag it found, and the time and audio.muted of the call before it
\* when that was a toggleStreamMute too (only ticks lie between the two).
MuteCall(streamId) ==
  [ op |-> "toggleStreamMute", id |-> streamId, at |-> now, was |-> MutedOf(streamId),
    global |-> globalMute,
    prev |-> IF lastCall.op = "toggleStreamMute"
             THEN <<[id |-> lastCall.id, at |-> lastCall.at, was |-> lastCall.was]>>
             ELSE << >> ]

\* Mutant of ToggleMuteIn: a mute, which sets the flag instead of flipping it.
MuteIn(h, streamId) ==
  LET stream == FindIn(streams, h, streamId)
  IN  IF stream # 0 THEN [h EXCEPT ![stream].audio.muted = TRUE] ELSE h

\* toggleStreamMute on the records h.
ToggleMuteIn(h, streamId) ==
  LET stream == FindIn(streams, h, streamId)
  IN  IF stream # 0 THEN [h EXCEPT ![stream].audio.muted = ~@] ELSE h

toggleStreamMute(streamId) ==
  /\ CallerRuns
  /\ lastCall' = MuteCall(streamId)
  /\ heap' = ToggleMuteIn(heap, streamId)
  /\ UNCHANGED <<streams, hubVars, histVars, viewVars>>

\* visible of the record of the registry with this id (FALSE: no record).
VisibleOf(id) ==
  \E i \in 1..Len(streams) : heap[streams[i]].id = id /\ heap[streams[i]].visible

\* Mutant of toggleStreamVisibility: hiding a record also marks it inactive.
toggleStreamVisibilityWithStatus(streamId) ==
  /\ CallerRuns
  /\ lastCall' = [op |-> "toggleStreamVisibility", id |-> streamId,
                  was |-> VisibleOf(streamId)]
  /\ LET stream == FindStream(streamId)
     IN  heap' = IF stream # 0
                 THEN [heap EXCEPT ![stream].visible = ~@,
                                   ![stream].status = IF heap[stream].visible
                                                      THEN "inactive" ELSE "active"]
                 ELSE heap
  /\ UNCHANGED <<streams, hubVars, histVars, viewVars>>

toggleStreamVisibility(streamId) ==
  /\ CallerRuns
  /\ lastCall' = [op |-> "toggleStreamVisibility", id |-> streamId,
                  was |-> VisibleOf(streamId)]
  /\ LET stream == FindStream(streamId)
     IN  heap' = IF stream # 0 THEN [heap EXCEPT ![stream].visible = ~@] ELSE heap
  /\ UNCHANGED <<streams, hubVars, histVars, viewVars>>

\* The object literal of changeStreamSource.
sourceNames ==
  ("cam-01" :> "Camera 1 - Main Stage") @@ ("cam-02" :> "Camera 2 - Audience") @@
  ("cam-03" :> "Camera 3 - Close-up") @@ ("cam-04" :> "Camera 4 - Wide Shot") @@
  ("gfx-01" :> "Graphics - Lower Thirds") @@ ("gfx-02" :> "Graphics - Overlay") @@
  ("aud-01" :> "Audio Board Feed") @@ ("rec-01" :> "Recording Playback")

\* Property names every object literal inherits from Object.prototype.
ObjectPrototypeKeys ==
  {"constructor", "toString", "valueOf", "hasOwnProperty", "isPrototypeOf",
   "propertyIsEnumerable", "toLocaleString", "__proto__"}

Undefined == "<undefined>"

\* sourceNames[sourceId]: the entry of the literal, else the member inherited
\* from Object.prototype (a function or object, not a label), else undefined.
LookupSourceName(sourceId) ==
  IF sourceId \in DOMAIN sourceNames THEN sourceNames[sourceId]
  ELSE IF sourceId \in ObjectPrototypeKeys THEN "<member of Object.prototype>"
  ELSE Undefined

\* The name of the record of the registry with this id ("": no record).
NameOf(id) ==
  IF \E i \in 1..Len(streams) : heap[streams[i]].id = id
  THEN heap[CHOOSE r \in DOMAIN heap :
              (\E i \in 1..Len(streams) : streams[i] = r) /\ heap[r].id = id].name
  ELSE ""

\* Mutant of changeStreamSource: the new source becomes the record's id.
changeStreamSourceAsId(streamId, sourceId) ==
  /\ CallerRuns
  /\ lastCall' = [op |-> "changeStreamSource", id |-> streamId, src |-> sourceId,
                  nameWas |-> NameOf(streamId)]
  /\ LET stream == FindStream(streamId)
     IN  heap' = IF stream # 0
                 THEN [heap EXCEPT ![stream].sourceId = sourceId, ![stream].id = sourceId]
                 ELSE heap
  /\ UNCHANGED <<streams, hubVars, histVars, viewVars>>

changeStreamSource(streamId, sourceId) ==
  /\ CallerRuns
  /\ lastCall' = [op |-> "changeStreamSource", id |-> streamId, src |-> sourceId,
                  nameWas |-> NameOf(streamId)]
  /\ LET stream == FindStream(streamId)
         label == LookupSourceName(sourceId)
     IN  heap' = IF stream # 0
                 THEN [heap EXCEPT ![stream].sourceId = sourceId,
                                   ![stream].name = IF label # Undefined THEN label ELSE @]
                 ELSE heap
  /\ UNCHANGED <<streams, hubVars, histVars, viewVars>>

\* Mutant of ReseedBitrate: the draw of generateMockStream, for every tier.
ReseedBitrateAnyTier(resolution, rand) == 100 + ((rand * 5 + 5) \div 10)

\* The bitrate changeStreamResolution draws, in tenths of Mbps; rand is
\* Math.random() in thousandths.  Math.round(x) is floor(x + 0.5).
ReseedBitrate(resolution, rand) ==
  LET pixelCount == resolution.width * resolution.height
  IN  IF pixelCount >= 3840 * 2160 THEN 400 + ((rand * 3 + 5) \div 10)
      ELSE IF pixelCount >= 1920 * 1080 THEN 150 + ((rand * 2 + 5) \div 10)
      ELSE 50 + ((rand + 5) \div 10)

\* History of a changeStreamResolution call: the resolution it was given, and
\* the resolution and the bitrate drawn by the call before it when that was a
\* changeStreamResolution on the same record too.
ResolutionCall(streamId, resolution) ==
  [ op |-> "changeStreamResolution", id |-> streamId, res |-> resolution,
    prev |-> IF /\ lastCall.op = "changeStreamResolution"
                /\ lastCall.id = streamId
                /\ FindStream(streamId) # 0
             THEN <<[res |-> lastCall.res, bitrate |-> heap[FindStream(streamId)].bitrate]>>
             ELSE << >> ]

\* Mutant of changeStreamResolution: the latency is re-seeded with the bitrate.
changeStreamResolutionReseedingLatency(streamId, resolution, rand) ==
  /\ CallerRuns
  /\ lastCall' = ResolutionCall(streamId, resolution)
  /\ LET stream == FindStream(streamId)
     IN  heap' = IF stream # 0
                 THEN [heap EXCEPT ![stream].resolution = resolution,
                                   ![stream].bitrate = ReseedBitrate(resolution, rand),
                                   ![stream].latency = 20]
                 ELSE heap
  /\ UNCHANGED <<streams, hubVars, histVars, viewVars>>

changeStreamResolution(streamId, resolution, rand) ==
  /\ CallerRuns
  /\ lastCall' = ResolutionCall(streamId, resolution)
  /\ LET stream == FindStream(streamId)
     IN  heap' = IF stream # 0
                 THEN [heap EXCEPT ![stream].resolution = resolution,
                                   ![stream].bitrate = ReseedBitrate(resolution, rand)]
                 ELSE heap
  /\ UNCHANGED <<streams, hubVars, histVars, viewVars>>

(***************************************************************************)
(* What a caller can do with the references it was handed.                 *)
(***************************************************************************)
CallerGetStreams ==
  /\ CallerRuns
  /\ streamsRef' = getStreams
  /\ UNCHANGED <<regVars, hubVars, histVars, recRef, currentLayout, selectedStreamId,
                 globalMute, masterVolume, viewUnsub, bars, lastCall>>

CallerGetStream(id) ==
  /\ CallerRuns
  /\ recRef' = getStream(id)
  /\ UNCHANGED <<regVars, hubVars, histVars, streamsRef, currentLayout,
                 selectedStreamId, globalMute, masterVolume, viewUnsub, bars, lastCall>>

\* arr[i] of the array the caller holds.
CallerPicks(i) ==
  /\ CallerRuns
  /\ i \in 1..Len(Deref(streamsRef))
  /\ recRef' = Deref(streamsRef)[i]
  /\ UNCHANGED <<regVars, hubVars, histVars, streamsRef, currentLayout,
                 selectedStreamId, globalMute, masterVolume, viewUnsub, bars, lastCall>>

\* An assignment to a field of the record the caller holds.
CallerWritesRecord ==
  /\ CallerRuns
  /\ recRef # 0
  /\ heap' = [heap EXCEPT ![recRef].status = "error"]
  /\ UNCHANGED <<streams, hubVars, histVars, viewVars, lastCall>>

\* arr.pop() on the array the caller holds.
CallerWritesArray ==
  /\ CallerRuns
  /\ Len(Deref(streamsRef)) > 0
  /\ IF streamsRef.live
     THEN /\ streams' = SubSeq(streams, 1, Len(streams) - 1)
          /\ UNCHANGED streamsRef
     ELSE /\ streamsRef' = CopyRef(SubSeq(streamsRef.elems, 1, Len(streamsRef.elems) - 1))
          /\ UNCHANGED streams
  /\ UNCHANGED <<heap, hubVars, histVars, recRef, currentLayout, selectedStreamId,
                 globalMute, masterVolume, viewUnsub, bars, lastCall>>

(***************************************************************************)
(* The state of useMultiview.                                              *)
(***************************************************************************)
GRID_LAYOUTS ==
  << [id |-> "2x2", name |-> "2x2 Grid", rows |-> 2, cols |-> 2, totalTiles |-> 4],
     [id |-> "3x3", name |-> "3x3 Grid", rows |-> 3, cols |-> 3, totalTiles |-> 9],
     [id |-> "4x4", name |-> "4x4 Grid", rows |-> 4, cols |-> 4, totalTiles |-> 16] >>

\* JavaScript's null, for selectedStreamId.
Null == "<null>"

\* if (x) on a string or null.
Truthy(x) == x # Null /\ x # ""

\* Mutant of FindIndex: the position counted from 1.
FindIndexFrom1(arr, id) ==
  IF \E i \in 1..Len(arr) : heap[arr[i]].id = id
  THEN CHOOSE i \in 1..Len(arr) :
         /\ heap[arr[i]].id = id
         /\ \A j \in 1..(i - 1) : heap[arr[j]].id # id
  ELSE -1

\* Array.prototype.findIndex by id, 0-based; -1 when no record has the id.
FindIndex(arr, id) ==
  IF \E i \in 1..Len(arr) : heap[arr[i]].id = id
  THEN (CHOOSE i \in 1..Len(arr) :
          /\ heap[arr[i]].id = id
          /\ \A j \in 1..(i - 1) : heap[arr[j]].id # id) - 1
  ELSE -1

\* onMounted: initialize().
initialize ==
  /\ pc = "idle"
  /\ viewUnsub = 0
  /\ streamsRef' = getStreams
  /\ Subscribed(ViewCb)
  /\ viewUnsub' = Len(issued) + 1
  /\ UNCHANGED <<regVars, updateInterval, timers, now, clock, pc, k, len, detached,
                 log, atStart, tokAtStart, cancelled, cancelledNow,
                 recRef, currentLayout, selectedStreamId, globalMute, masterVolume, bars,
                 lastCall>>

\* The handlers of the mounted component run between ticks.
Mounted == pc = "idle" /\ viewUnsub # 0

changeLayout(layout) ==
  /\ Mounted
  /\ lastCall' = [op |-> "changeLayout", id |-> layout.id, was |-> selectedStreamId]
  /\ currentLayout' = layout
  /\ LET selectedIndex == FindIndex(Deref(streamsRef), selectedStreamId)
     IN  selectedStreamId' =
           IF Truthy(selectedStreamId) /\ selectedIndex >= layout.totalTiles
           THEN Null ELSE selectedStreamId
  /\ UNCHANGED <<regVars, hubVars, histVars, streamsRef, recRef, globalMute,
                 masterVolume, viewUnsub, bars>>

selectStream(streamId) ==
  /\ Mounted
  /\ lastCall' = [op |-> "selectStream", id |-> streamId]
  /\ selectedStreamId' = IF selectedStreamId = streamId THEN Null ELSE streamId
  /\ UNCHANGED <<regVars, hubVars, histVars, streamsRef, recRef, currentLayout,
                 globalMute, masterVolume, viewUnsub, bars>>

\* audio.muted of every record, in registry order.
MutedAll == [i \in 1..Len(streams) |-> heap[streams[i]].audio.muted]

\* History of a toggleGlobalMute call: the flag and the mute states it found,
\* and the same of the call before it when that was a toggleGlobalMute too.
GlobalMuteCall ==
  [ op |-> "toggleGlobalMute", id |-> "", at |-> now,
    flagWas |-> globalMute, mutedWas |-> MutedAll,
    prev |-> IF lastCall.op = "toggleGlobalMute"
             THEN <<[flagWas |-> lastCall.flagWas, mutedWas |-> lastCall.mutedWas]>>
             ELSE << >> ]

\* Mutant of CascadeMute: a loop that toggles every record it visits.
RECURSIVE CascadeToggle(_, _, _)
CascadeToggle(arr, h, flag) ==
  IF arr = << >> THEN h
  ELSE CascadeToggle(Tail(arr), ToggleMuteIn(h, h[Head(arr)].id), flag)

\* streams.value.forEach of toggleGlobalMute: each record whose mute state
\* differs from the flag is toggled through the service, by its id.
RECURSIVE CascadeMute(_, _, _)
CascadeMute(arr, h, flag) ==
  IF arr = << >> THEN h
  ELSE CascadeMute(Tail(arr),
                   IF h[Head(arr)].audio.muted # flag
                   THEN ToggleMuteIn(h, h[Head(arr)].id) ELSE h,
                   flag)

toggleGlobalMute ==
  /\ Mounted
  /\ lastCall' = GlobalMuteCall
  /\ globalMute' = ~globalMute
  /\ heap' = CascadeMute(Deref(streamsRef), heap, globalMute')
  /\ UNCHANGED <<streams, hubVars, histVars, streamsRef, recRef, currentLayout,
                 selectedStreamId, masterVolume, viewUnsub, bars>>

\* The computed activeStreamsCount and totalStreamsCount of useMultiview.
activeStreamsCount ==
  Cardinality({i \in 1..Len(Deref(streamsRef)) :
                 heap[Deref(streamsRef)[i]].status = "active"})

totalStreamsCount == Len(Deref(streamsRef))

changeMasterVolume(volume) ==
  /\ Mounted
  /\ lastCall' = [op |-> "changeMasterVolume", id |-> "", v |-> volume]
  /\ masterVolume' = Max(0, Min(100, volume))
  /\ UNCHANGED <<regVars, hubVars, histVars, streamsRef, recRef, currentLayout,
                 selectedStreamId, globalMute, viewUnsub, bars>>


(***************************************************************************)
(* The subscription hub under arbitrary observers.                          *)
(***************************************************************************)
Callbacks == {"f", "g"}

\* The observers are alike but for their names: the first one subscribed is
\* called f.
SubscribeSome ==
  \E cb \in Callbacks : (issued = << >> => cb = "f") /\ subscribe(cb)

\* The state after `new MockStreamService()`.
InitHub ==
  /\ updateInterval = 1
  /\ timers = {1}
  /\ listeners = << >>
  /\ issued = << >>
  /\ now = 0
  /\ clock = 0
  /\ pc = "idle"
  /\ k = 0
  /\ len = 0
  /\ detached = << >>
  /\ log = << >>
  /\ atStart = << >>
  /\ tokAtStart = 0
  /\ touched = FALSE
  /\ cancelled = {}
  /\ cancelledNow = {}

\* useMultiview before it is mounted.
InitView ==
  /\ streamsRef = CopyRef(<< >>)
  /\ recRef = 0
  /\ currentLayout = GRID_LAYOUTS[1]
  /\ selectedStreamId = Null
  /\ globalMute = FALSE
  /\ masterVolume = 75
  /\ viewUnsub = 0
  /\ bars = << >>
  /\ lastCall = [op |-> "none", id |-> ""]

Init ==
  /\ initializeMockStreams(NumStreams, [i \in 1..NumStreams |-> PlainSeed])
  /\ InitHub
  /\ InitView

Next ==
  \/ TimerFire({QuietDraw})
  \/ CallbackReturns
  \/ CallbackThrows
  \/ SubscribeSome
  \/ \E t \in 1..Len(issued) : unsubscribe(t)
  \/ destroy

Spec == Init /\ [][Next]_vars

(***************************************************************************)
(* The registry under the mutation API, with useMultiview as the observer. *)
(***************************************************************************)
\* The ids callers pass: the id of a record, and an id of no record.
MutationIds == {streamConfigs[2].id, "no-such-stream"}

\* A key of the lookup table, an id outside it, a member of Object.prototype.
SourceIds == {"gfx-01", "ext-01", "constructor"}

\* One resolution of each tier, and one no display has.
Resolutions ==
  { [width |-> 1280, height |-> 720],
    [width |-> 1920, height |-> 1080],
    [width |-> 3840, height |-> 2160],
    [width |-> 0, height |-> 0] }

\* Outcomes of Math.random(), in thousandths: the least and the greatest.
Rands == {0, 999}

NextRegistry ==
  \/ initialize
  \/ TimerFireUpTo({QuietDraw}, MaxRegistryTicks)
  \/ CallbackReturns
  \/ \E id \in MutationIds : toggleStreamMute(id)
  \/ \E id \in MutationIds : toggleStreamVisibility(id)
  \/ \E id \in MutationIds, src \in SourceIds : changeStreamSource(id, src)
  \/ \E id \in MutationIds, res \in Resolutions, rand \in Rands :
       changeStreamResolution(id, res, rand)

SpecRegistry == Init /\ [][NextRegistry]_vars

(***************************************************************************)
(* The registry with a caller that writes through what it was handed.      *)
(***************************************************************************)
NextAlias ==
  \/ initialize
  \/ TimerFire({QuietDraw})
  \/ CallbackReturns
  \/ \E id \in MutationIds : toggleStreamMute(id)
  \/ CallerGetStreams
  \/ \E id \in MutationIds : CallerGetStream(id)
  \/ \E i \in 1..NumStreams : CallerPicks(i)
  \/ CallerWritesRecord
  \/ CallerWritesArray

SpecAlias == Init /\ [][NextAlias]_vars

(***************************************************************************)
(* useMultiview over a registry larger than the smallest grid.             *)
(***************************************************************************)
InitMultiview ==
  /\ initializeMockStreams(NumViewStreams, [i \in 1..NumViewStreams |-> PlainSeed])
  /\ InitHub
  /\ InitView

\* Ids the tiles and the stream list pass: that of the record in the last tile
\* of the default layout, that of the last record, and the id of a placeholder
\* tile.
SelectIds ==
  {streamConfigs[4].id, streamConfigs[NumViewStreams].id, "empty-5"}

Volumes == {-10, 40, 120}

NextMultiview ==
  \/ initialize
  \/ TimerFire({QuietDraw})
  \/ CallbackReturns
  \/ \E id \in SelectIds : selectStream(id)
  \/ \E i \in 1..Len(GRID_LAYOUTS) : changeLayout(GRID_LAYOUTS[i])
  \/ \E id \in {streamConfigs[1].id, streamConfigs[NumViewStreams].id} :
       Mounted /\ toggleStreamMute(id)
  \/ toggleGlobalMute
  \/ \E v \in Volumes : changeMasterVolume(v)

SpecMultiview == InitMultiview /\ [][NextMultiview]_vars

(***************************************************************************)
(* AudioLevelBars: the four bars drawn for a record.                       *)
(***************************************************************************)
AUDIO_THRESHOLDS == [SAFE |-> 60, CAUTION |-> 80, DANGER |-> 95, PEAK |-> 100]

\* Mutant of audioLevels: no padding, so fewer than four inputs give fewer bars.
audioLevelsUnpadded(levels, muted) ==
  [i \in 1..Min(4, Len(levels)) |->
     IF muted THEN 0 ELSE Max(0, Min(100, levels[i]))]

\* The computed audioLevels: padded with zeros to four channels, cut to four,
\* zero when muted and clamped to 0..100 otherwise.
audioLevels(levels, muted) ==
  [i \in 1..4 |->
     LET level == IF i <= Len(levels) THEN levels[i] ELSE 0
     IN  IF muted THEN 0 ELSE Max(0, Min(100, level))]

getBarColorClass(level) ==
  IF level >= AUDIO_THRESHOLDS.PEAK THEN "bg-audio-peak"
  ELSE IF level >= AUDIO_THRESHOLDS.DANGER THEN "bg-audio-danger"
  ELSE IF level >= AUDIO_THRESHOLDS.CAUTION THEN "bg-audio-caution"
  ELSE "bg-audio-safe"

\* The classes of the four bars of the record r.
BarClasses(r) ==
  LET shown == audioLevels(heap[r].audio.levels, heap[r].audio.muted)
  IN  [i \in 1..4 |-> getBarColorClass(shown[i])]

\* The component is rendered for the first record: audioLevels.value is
\* computed from the props the tile passes, stream.audio.levels and
\* stream.audio.muted.
RenderBars ==
  /\ pc = "idle"
  /\ Len(streams) >= 1
  /\ bars' = audioLevels(heap[streams[1]].audio.levels, heap[streams[1]].audio.muted)
  /\ UNCHANGED <<regVars, hubVars, histVars, streamsRef, recRef, currentLayout,
                 selectedStreamId, globalMute, masterVolume, viewUnsub, lastCall>>

\* Values a level prop can hold: below the range, inside it, above it.
LevelValues == {-5, 42, 130}

\* The arrays of at most n levels.
LevelInputs(n) == UNION {[1..m -> LevelValues] : m \in 0..n}

\* A record as generateMockStream makes it, with the levels prop and the mute
\* state the component is given: the prop is any array of numbers.
InitBars ==
  /\ streams = <<1>>
  /\ \E lv \in LevelInputs(MaxLevels), m \in BOOLEAN :
       heap = [i \in 1..1 |->
                 [generateMockStream(streamConfigs[1].id, streamConfigs[1].name, PlainSeed)
                    EXCEPT !.audio.levels = lv, !.audio.muted = m]]
  /\ InitHub
  /\ InitView

NextBars ==
  \/ RenderBars
  \/ toggleStreamMute(streamConfigs[1].id)

SpecBars == InitBars /\ [][NextBars]_vars

(***************************************************************************)
(* The telemetry of the registry: ticks whose draws move the levels.       *)
(***************************************************************************)
\* The variations are the ends of (Math.random() - 0.5) * 20, in whole levels.
TelemetryDraws == {QuietDraw, LevelDraw(9), LevelDraw(-10), SnapDraw}

InitTelemetry ==
  /\ \E seeds \in [1..NumTelemetryStreams -> {PlainSeed, EdgeSeed}] :
       initializeMockStreams(NumTelemetryStreams, seeds)
  /\ InitHub
  /\ InitView

NextTelemetry ==
  \/ initialize
  \/ TimerFire(TelemetryDraws)
  \/ CallbackReturns
  \/ toggleStreamMute(streamConfigs[1].id)
  \/ toggleStreamVisibility(streamConfigs[1].id)

SpecTelemetry == InitTelemetry /\ [][NextTelemetry]_vars

(***************************************************************************)
(* MultiviewGrid: the tiles drawn for the streams and the layout it is     *)
(* given.                                                                  *)
(***************************************************************************)
\* Mutant of displayedStreams: only the streams there are, without empty slots.
displayedAvailable(arr, layout) ==
  [i \in 1..Min(layout.totalTiles, Len(arr)) |-> arr[i]]

\* The computed displayedStreams: result[i] = props.streams[i] || null for
\* every i below totalTiles (0 stands for null).
displayedStreams(arr, layout) ==
  [i \in 1..layout.totalTiles |-> IF i <= Len(arr) THEN arr[i] ELSE 0]

\* createEmptyStream(index), index counted from 0.
createEmptyStream(index) ==
  [ id |-> "empty-" \o ToString(index),
    name |-> "Tile " \o ToString(index + 1),
    url |-> "",
    status |-> "inactive",
    resolution |-> [width |-> 1920, height |-> 1080],
    bitrate |-> 0,
    latency |-> 0,
    frameRate |-> 0,
    audio |-> [ channels |-> 2,
                sampleRate |-> 48000,
                levels |-> <<0, 0, 0, 0>>,
                muted |-> TRUE ],
    lastUpdate |-> clock,
    visible |-> TRUE,
    sourceId |-> "" ]

\* The records given to the StreamTile components:
\* :stream="stream || createEmptyStream(index)".
Tiles ==
  LET shown == displayedStreams(Deref(streamsRef), currentLayout)
  IN  [i \in 1..Len(shown) |->
         IF shown[i] # 0 THEN heap[shown[i]] ELSE createEmptyStream(i - 1)]

\* Registries of every size up to NumViewStreams, the empty one included.
InitGrid ==
  /\ \E n \in 0..NumViewStreams :
       initializeMockStreams(n, [i \in 1..n |-> PlainSeed])
  /\ InitHub
  /\ InitView

NextGrid ==
  \/ initialize
  \/ TimerFire({QuietDraw})
  \/ CallbackReturns
  \/ \E i \in 1..Len(GRID_LAYOUTS) : changeLayout(GRID_LAYOUTS[i])
  \/ toggleGlobalMute

SpecGrid == InitGrid /\ [][NextGrid]_vars

(***************************************************************************)
(* The drift of bitrate and latency over the ticks.                        *)
(***************************************************************************)
\* No drift, and the two ends of the drift: (Math.random() - 0.5) * 5 lies in
\* [-2.5, 2.5) and Math.floor((Math.random() - 0.5) * 20) in -10..9.
DriftDraws == {QuietDraw, DriftDraw(-25, -10), DriftDraw(25, 9)}

\* A resolution of the lowest tier, whose bitrates are the least.
DriftResolutions == {[width |-> 1280, height |-> 720]}

InitDrift ==
  /\ \E seeds \in [1..NumTelemetryStreams -> {PlainSeed, EdgeSeed}] :
       initializeMockStreams(NumTelemetryStreams, seeds)
  /\ InitHub
  /\ InitView

NextDrift ==
  \/ initialize
  \/ TimerFireUpTo(DriftDraws, MaxDriftTicks)
  \/ CallbackReturns
  \/ \E res \in DriftResolutions, rand \in Rands :
       changeStreamResolution(streamConfigs[1].id, res, rand)

SpecDrift == InitDrift /\ [][NextDrift]_vars

(***************************************************************************)
(* The time stamps of the records, with time passing between the handlers. *)
(***************************************************************************)
NextStamp ==
  \/ initialize
  \/ TimerFire({QuietDraw})
  \/ CallbackReturns
  \/ Elapse
  \/ toggleStreamMute(streamConfigs[1].id)
  \/ toggleStreamVisibility(streamConfigs[1].id)
  \/ changeStreamSource(streamConfigs[1].id, "gfx-01")
  \/ changeStreamResolution(streamConfigs[1].id, [width |-> 3840, height |-> 2160], 0)

SpecStamp == Init /\ [][NextStamp]_vars

(***************************************************************************)
(* The tick against the mutation API: ticks that move levels, bitrate and  *)
(* latency of records the mutators have changed.                           *)
(***************************************************************************)
\* Levels that fall, snap and rise, and a downward drift.
FrameDraws == {SnapDraw, DriftDraw(-25, -10)}

\* The last record is inactive; every other record, the one the mutators act
\* on among them, is drawn active or inactive.
InitFrame ==
  /\ \E seed \in {PlainSeed, EdgeSeed} :
       initializeMockStreams(NumStreams,
                             [i \in 1..NumStreams |->
                                IF i < NumStreams THEN seed ELSE EdgeSeed])
  /\ InitHub
  /\ InitView

NextFrame ==
  \/ initialize
  \/ TimerFireUpTo(FrameDraws, MaxRegistryTicks)
  \/ CallbackReturns
  \/ toggleStreamMute(streamConfigs[1].id)
  \/ toggleStreamVisibility(streamConfigs[1].id)
  \/ changeStreamSource(streamConfigs[1].id, "gfx-01")
  \/ changeStreamResolution(streamConfigs[1].id, [width |-> 3840, height |-> 2160], 0)

SpecFrame == InitFrame /\ [][NextFrame]_vars

(***************************************************************************)
(* The hub while the service runs: no destroy, and every observer returns. *)
(* setInterval fires its callback for as long as the interval is armed,    *)
(* and a callback that was started runs on, which is the fairness stated.  *)
(***************************************************************************)
NextLive ==
  \/ TimerFire({QuietDraw})
  \/ CallbackReturns
  \/ SubscribeSome
  \/ \E t \in 1..Len(issued) : unsubscribe(t)

SpecLive ==
  /\ Init
  /\ [][NextLive]_vars
  /\ WF_vars(TimerFire({QuietDraw}))
  /\ WF_vars(CallbackReturns)

(***************************************************************************)
(* The mutation API beside the handlers of useMultiview: the mutators act  *)
(* on the first record while the view's own state takes several values.    *)
(***************************************************************************)
\* The first and the last of the resolutions the tile's menu offers.
MenuResolutions == {[width |-> 3840, height |-> 2160], [width |-> 854, height |-> 480]}

NextOwnFields ==
  \/ initialize
  \/ \E id \in {streamConfigs[1].id, streamConfigs[NumStreams].id} : selectStream(id)
  \/ \E i \in 1..2 : changeLayout(GRID_LAYOUTS[i])
  \/ toggleGlobalMute
  \/ changeMasterVolume(40)
  \/ toggleStreamMute(streamConfigs[1].id)
  \/ toggleStreamVisibility(streamConfigs[1].id)
  \/ \E src \in SourceIds : changeStreamSource(streamConfigs[1].id, src)
  \/ \E res \in MenuResolutions, rand \in Rands :
       changeStreamResolution(streamConfigs[1].id, res, rand)

SpecOwnFields == Init /\ [][NextOwnFields]_vars

(***************************************************************************)
(* Properties of the subscription hub.                                     *)
(***************************************************************************)
Cbs(arr) == [i \in 1..Len(arr) |-> arr[i].cb]

Toks(arr) == {arr[i].tok : i \in 1..Len(arr)}

RemoveTok(arr, t) == SelectSeq(arr, LAMBDA e : e.tok # t)

\* The entry whose observer is running.
Current == log[Len(log)]

AllStamped == \A i \in 1..Len(streams) : heap[streams[i]].lastUpdate = now

\* C1: when an observer raises during a broadcast, the broadcast goes on to
\* the next observer it would have called (which receives the same
\* snapshot), and the timer stays armed so that later ticks run.
C1_RaisingObserverIsIsolated ==
  [][CallbackThrows =>
       /\ timers' = timers
       /\ Visits(k + 1, IterArr) =>
            (pc' = "callback" /\ log' = Append(log, IterArr[k + 1]))]_vars

\* C2: calling the unsubscribe closure of a registration that is in the
\* array leaves the array as it was with exactly that registration taken
\* out: the observers that remain, and their order, are those of the other
\* registrations.
C2_UnsubscribeRemovesItsOwnRegistration ==
  [][\A t \in 1..Len(issued) :
       (unsubscribe(t) /\ t \in Toks(listeners)) =>
          Cbs(listeners') = Cbs(RemoveTok(listeners, t))]_vars

\* C3: calling an unsubscribe closure whose registration is no longer in
\* the array changes nothing in the array.
C3_SecondUnsubscribeIsNoOp ==
  [][\A t \in 1..Len(issued) :
       (unsubscribe(t) /\ t \notin Toks(listeners)) =>
          listeners' = listeners]_vars

\* C4: an observer all of whose subscriptions were cancelled (the
\* unsubscribe closure returned by each was called) before a tick began is
\* not called in that tick's broadcast: the observer a broadcast calls
\* always has a subscription that was not cancelled before the tick.
C4_NoDeliveryAfterUnsubscribe ==
  pc = "callback" =>
    \E t \in 1..Len(issued) :
      /\ issued[t] = Current.cb
      /\ t \notin (cancelled \ cancelledNow)

\* An observer was subscribed and unsubscribed, nothing else subscribes it,
\* and the broadcast of a later tick is running.
C4_Witness ==
  /\ pc = "callback"
  /\ now = MaxTicks
  /\ \E cb \in Callbacks :
       /\ \E t \in 1..Len(issued) : issued[t] = cb
       /\ \A t \in 1..Len(issued) : issued[t] = cb => t \in cancelled \ cancelledNow

\* C5: while an observer of a tick's broadcast runs, every record of the
\* registry carries that tick's update; no entry is called twice in one
\* broadcast; and the clock of ticks advances only when no broadcast is
\* running.
C5_TickUpdatesAllThenBroadcastsOnce ==
  /\ [](pc = "callback" =>
          /\ AllStamped
          /\ \A i, j \in 1..Len(log) : log[i].tok = log[j].tok => i = j)
  /\ [][now' # now => (pc = "idle" /\ \A r \in DOMAIN heap : heap'[r].lastUpdate = now')]_vars

\* The second observer of the second tick's broadcast is running.
C5_Witness ==
  /\ pc = "callback"
  /\ now = 2
  /\ Len(log) = 2
  /\ Len(streams) >= 2

C7_SubscribedMidTickWaitsForNextTick ==
  pc = "callback" => (Current.tok <= tokAtStart /\ AllStamped)

(***************************************************************************)
(* Properties of the registry and of the selection.                        *)
(***************************************************************************)
\* The records the engine holds, in registry order.
Registry == [i \in 1..Len(streams) |-> heap[streams[i]]]

\* Some record of the registry has this id.
Known(id) == \E i \in 1..Len(streams) : heap[streams[i]].id = id

\* C8: a caller that changes the record or the array it obtained from
\* getStreams(), getStream(id) or a broadcast does not change the records
\* the engine holds.
C8_NoAliasOfRegistry ==
  [][(CallerWritesRecord \/ CallerWritesArray) => Registry' = Registry]_vars

AnyMutator(id) ==
  \/ toggleStreamMute(id)
  \/ toggleStreamVisibility(id)
  \/ \E src \in SourceIds : changeStreamSource(id, src)
  \/ \E res \in Resolutions, rand \in Rands : changeStreamResolution(id, res, rand)

\* C9: toggleStreamMute, toggleStreamVisibility, changeStreamSource and
\* changeStreamResolution with an id of no record leave the array and every
\* field of every record as they were.
C9_UnknownIdChangesNothing ==
  [][\A id \in MutationIds :
       ~Known(id) => ((streams' = streams /\ heap' = heap) \/ ~AnyMutator(id))]_vars

\* A mutator was just called with an id of no record, on a registry that
\* earlier calls have changed.
C9_Witness ==
  /\ ~Known(lastCall.id)
  /\ lastCall.op \in {"toggleStreamMute", "toggleStreamVisibility",
                      "changeStreamSource", "changeStreamResolution"}
  /\ \E i \in 1..Len(streams) :
       heap[streams[i]].audio.muted /\ ~heap[streams[i]].visible

\* C10: selectStream with an id of no record leaves the selection as it was.
C10_SelectUnknownIsNoOp ==
  [][\A id \in SelectIds :
       (~Known(id) /\ selectStream(id)) => selectedStreamId' = selectedStreamId]_vars

\* C11: toggleStreamMute(id) with the id of a record flips that record's
\* audio.muted, and the second of two consecutive toggleStreamMute(id) calls
\* returns it to the value the first found, whatever ticks lie between or
\* after them.
C11_ToggleMuteIsItsOwnInverse ==
  (lastCall.op = "toggleStreamMute" /\ Known(lastCall.id)) =>
    /\ MutedOf(lastCall.id) = ~lastCall.was
    /\ \A i \in 1..Len(lastCall.prev) :
         lastCall.prev[i].id = lastCall.id => MutedOf(lastCall.id) = lastCall.prev[i].was

\* Two consecutive toggleStreamMute calls on one record, with a tick between.
C11_Witness ==
  /\ lastCall.op = "toggleStreamMute"
  /\ Known(lastCall.id)
  /\ lastCall.prev # << >>
  /\ lastCall.prev[1].id = lastCall.id
  /\ lastCall.prev[1].at < lastCall.at
  /\ MutedOf(lastCall.id) = lastCall.prev[1].was

\* The position of the record with this id in registry order, from 0.
RegistryIndex(id) ==
  (CHOOSE i \in 1..Len(streams) : heap[streams[i]].id = id) - 1

\* C12: changeLayout(layout) makes layout the active layout, and sets the
\* selection to null exactly when the selection is the id of a record whose
\* index in registry order is at least layout.totalTiles; otherwise it leaves
\* the selection as it was.
C12_LayoutClearsSelectionWithoutSlot ==
  [][\A n \in 1..Len(GRID_LAYOUTS) :
       changeLayout(GRID_LAYOUTS[n]) =>
         /\ currentLayout' = GRID_LAYOUTS[n]
         /\ selectedStreamId' =
              IF /\ Known(selectedStreamId)
                 /\ RegistryIndex(selectedStreamId) >= GRID_LAYOUTS[n].totalTiles
              THEN Null
              ELSE selectedStreamId]_vars

\* changeLayout has just cleared a selection.
C12_Witness ==
  /\ lastCall.op = "changeLayout"
  /\ Known(lastCall.was)
  /\ RegistryIndex(lastCall.was) >= currentLayout.totalTiles
  /\ selectedStreamId = Null

\* C13: in every state the selection is null or the id of a record whose
\* index in registry order is below the active layout's totalTiles.
C13_SelectionHasGridSlot ==
  \/ selectedStreamId = Null
  \/ /\ Known(selectedStreamId)
     /\ RegistryIndex(selectedStreamId) < currentLayout.totalTiles

C16_GlobalUnmuteRestoresIndividualStates ==
  (lastCall.op = "toggleGlobalMute" /\ lastCall.prev # << >> /\ ~globalMute) =>
    MutedAll = lastCall.prev[1].mutedWas

\* C17: the master volume lies in [0,100] in every state; changeMasterVolume(v)
\* stores 0 for v below 0, 100 for v above 100 and v otherwise, and changes no
\* field of any record.
C17_MasterVolumeIsClamped ==
  /\ [](masterVolume \in 0..100)
  /\ [][\A v \in Volumes :
          changeMasterVolume(v) =>
            /\ masterVolume' = (IF v < 0 THEN 0 ELSE IF v > 100 THEN 100 ELSE v)
            /\ Registry' = Registry]_vars

\* changeMasterVolume was called with a volume above 100.
C17_Witness ==
  /\ lastCall.op = "changeMasterVolume"
  /\ lastCall.v > 100
  /\ masterVolume = 100

(***************************************************************************)
(* Properties of the telemetry and of its display.                         *)
(***************************************************************************)
\* C18: in every state every record's audio.levels has exactly 4 entries and
\* every entry lies in [0,100].
C18_LevelsStayInRange ==
  \A i \in 1..Len(streams) :
    /\ Len(heap[streams[i]].audio.levels) = 4
    /\ \A j \in 1..4 : heap[streams[i]].audio.levels[j] \in 0..100

\* After a tick and a mutation call, a level held at each end of the range.
C18_Witness ==
  /\ now >= 1
  /\ lastCall.op = "toggleStreamMute"
  /\ \E i, m \in 1..Len(streams) :
       /\ heap[streams[i]].lastUpdate >= 1
       /\ heap[streams[m]].lastUpdate >= 1
       /\ \E j, n \in 1..4 :
            /\ heap[streams[i]].audio.levels[j] = 0
            /\ heap[streams[m]].audio.levels[n] = 100

\* C19: every bar is classified safe below 60, caution from 60 and below 80,
\* danger from 80 and below 95, and peak from 95.
C19_LevelClassification ==
  \A i \in 1..Len(streams) :
    LET shown == audioLevels(heap[streams[i]].audio.levels, heap[streams[i]].audio.muted)
    IN  \A j \in 1..4 :
          BarClasses(streams[i])[j] =
            IF shown[j] < 60 THEN "bg-audio-safe"
            ELSE IF shown[j] < 80 THEN "bg-audio-caution"
            ELSE IF shown[j] < 95 THEN "bg-audio-danger"
            ELSE "bg-audio-peak"

\* C20: for the streams and the layout the grid is given, there are exactly
\* layout.totalTiles tiles; tile i (from 0) is the i-th stream when there is
\* one, and otherwise a placeholder with id "empty-" + i, status inactive,
\* muted, visible, and zero bitrate, latency and levels.
C20_GridHasTotalTilesSlots ==
  LET given == Deref(streamsRef)
  IN  /\ Len(Tiles) = currentLayout.totalTiles
      /\ \A i \in 0..(currentLayout.totalTiles - 1) :
           IF i < Len(given)
           THEN Tiles[i + 1] = heap[given[i + 1]]
           ELSE /\ Tiles[i + 1].id = "empty-" \o ToString(i)
                /\ Tiles[i + 1].status = "inactive"
                /\ Tiles[i + 1].audio.muted
                /\ Tiles[i + 1].visible
                /\ Tiles[i + 1].bitrate = 0
                /\ Tiles[i + 1].latency = 0
                /\ Tiles[i + 1].audio.levels = <<0, 0, 0, 0>>

\* A grid with streams in its first tiles and placeholders in the others,
\* after a change of layout.
C20_Witness ==
  /\ lastCall.op = "changeLayout"
  /\ Len(Deref(streamsRef)) >= 1
  /\ Len(Deref(streamsRef)) < currentLayout.totalTiles
  /\ Tiles[1] = heap[streams[1]]
  /\ Tiles[currentLayout.totalTiles].id = "empty-" \o ToString(currentLayout.totalTiles - 1)

(***************************************************************************)
(* Properties of the mutation API and of the teardown.                     *)
(***************************************************************************)
\* The record of the registry with this id.
RecordOf(id) == heap[streams[RegistryIndex(id) + 1]]

\* C21: after changeStreamResolution(id, r) with the id of a record, r is the
\* record's resolution and its bitrate lies in 40.0..70.0 Mbps when
\* r.width * r.height >= 3840 * 2160, in 15.0..35.0 when >= 1920 * 1080, and
\* in 5.0..15.0 otherwise (bitrates in tenths of Mbps; the ticks of this
\* specification do not drift).
C21_ResolutionReseedsBitrateInTier ==
  (lastCall.op = "changeStreamResolution" /\ Known(lastCall.id)) =>
    LET r == lastCall.res
    IN  /\ RecordOf(lastCall.id).resolution = r
        /\ RecordOf(lastCall.id).bitrate \in
             (IF r.width * r.height >= 3840 * 2160 THEN 400..700
              ELSE IF r.width * r.height >= 1920 * 1080 THEN 150..350
              ELSE 50..150)

\* A changeStreamResolution to 4K has drawn the greatest bitrate of its tier.
C21_Witness ==
  /\ lastCall.op = "changeStreamResolution"
  /\ Known(lastCall.id)
  /\ lastCall.res = [width |-> 3840, height |-> 2160]
  /\ RecordOf(lastCall.id).resolution = lastCall.res
  /\ RecordOf(lastCall.id).bitrate = 700

\* C22: after changeStreamSource(id, s) with the id of a record, the record's
\* sourceId is s, its name is the label of s when s is a key of sourceNames
\* and the name it had otherwise, and its id is as before.
C22_SourceChangeRenamesOnlyKnownSources ==
  (lastCall.op = "changeStreamSource" /\ Known(lastCall.id)) =>
    /\ RecordOf(lastCall.id).sourceId = lastCall.src
    /\ RecordOf(lastCall.id).name =
         (IF lastCall.src \in DOMAIN sourceNames
          THEN sourceNames[lastCall.src] ELSE lastCall.nameWas)

\* C23: destroy leaves no interval timer running, the handle null and
\* this.listeners empty; a destroy of a service that a destroy has shut down
\* changes neither the timers, the handle, the listeners nor the registry.
C23_DestroyIsIdempotent ==
  [][destroy =>
       /\ timers' = {}
       /\ updateInterval' = 0
       /\ listeners' = << >>
       /\ (updateInterval = 0 /\ listeners = << >>) =>
            UNCHANGED <<timers, updateInterval, listeners, streams, heap>>]_vars

\* A destroy of a service already shut down, which had observers.
C23_Witness ==
  /\ lastCall.op = "destroy"
  /\ lastCall.again
  /\ issued # << >>
  /\ timers = {}
  /\ updateInterval = 0
  /\ listeners = << >>

\* C24: in every state the registry holds the records it was initialized
\* with: as many as then, with the ids of streamConfigs in that order, all
\* pairwise distinct.
C24_RegistryKeepsItsRecords ==
  /\ Len(streams) = NumStreams
  /\ \A i \in 1..Len(streams) : heap[streams[i]].id = streamConfigs[i].id
  /\ \A i, j \in 1..Len(streams) :
       heap[streams[i]].id = heap[streams[j]].id => i = j

\* After a tick, a record that the mutation API has given another source,
\* another resolution and another mute state.
C24_Witness ==
  /\ now >= 1
  /\ \E i \in 1..Len(streams) :
       /\ heap[streams[i]].sourceId # heap[streams[i]].id
       /\ heap[streams[i]].resolution # PlainSeed.resolution
       /\ heap[streams[i]].audio.muted
       /\ heap[streams[i]].lastUpdate >= 1

(***************************************************************************)
(* Properties of the drift and of the time stamps.                         *)
(***************************************************************************)
\* C25: in every state every record's bitrate is non-negative.
C25_BitrateIsNonNegative ==
  \A i \in 1..Len(streams) : heap[streams[i]].bitrate >= 0

\* C26: in every state every record's latency is an integer of at least 10.
C26_LatencyHasFloor ==
  \A i \in 1..Len(streams) :
    heap[streams[i]].latency \in Int /\ heap[streams[i]].latency >= 10

\* A record that was never re-seeded, held at the floor by the second of two
\* downward drifts.
C26_Witness ==
  /\ lastCall.op = "none"
  /\ now >= 2
  /\ \E i \in 1..Len(streams) :
       /\ heap[streams[i]].status = EdgeSeed.status
       /\ heap[streams[i]].bitrate = EdgeSeed.bitrate - 50
       /\ heap[streams[i]].latency = 10

\* C28: toggleStreamMute, toggleStreamVisibility, changeStreamSource and
\* changeStreamResolution with the id of a record set that record's lastUpdate
\* to the time of the call.
C28_MutationStampsLastUpdate ==
  [][\A i \in 1..Len(streams) :
       AnyMutator(heap[streams[i]].id) => heap'[streams[i]].lastUpdate = clock]_vars

\* C29: a tick sets lastUpdate of every record to the time of the tick,
\* whatever else it changed and whether or not the record is hidden or muted,
\* and no step makes a record's lastUpdate smaller.
C29_TickStampsEveryRecord ==
  /\ [][now' # now =>
          \A i \in 1..Len(streams) : heap'[streams[i]].lastUpdate = clock']_vars
  /\ [][\A i \in 1..Len(streams) :
          heap'[streams[i]].lastUpdate >= heap[streams[i]].lastUpdate]_vars

\* A record hidden and muted some time before a tick whose draws changed no
\* level, bitrate or latency, and stamped by that tick.
C29_Witness ==
  /\ clock > now
  /\ now >= 1
  /\ pc = "idle"
  /\ \E i \in 1..Len(streams) :
       /\ ~heap[streams[i]].visible
       /\ heap[streams[i]].audio.muted
       /\ heap[streams[i]].lastUpdate = clock
       /\ lastCall.id = heap[streams[i]].id
       /\ lastCall.op = "toggleStreamMute"
       /\ lastCall.at < now

\* C27: in every state every record's resolution has a positive width and a
\* positive height.
C27_ResolutionIsPositive ==
  \A i \in 1..Len(streams) :
    heap[streams[i]].resolution.width > 0 /\ heap[streams[i]].resolution.height > 0

\* The pixel-count tier of a resolution: 3 for 4K and above, 2 for 1080p and
\* above, 1 below.
PixelTier(r) ==
  IF r.width * r.height >= 3840 * 2160 THEN 3
  ELSE IF r.width * r.height >= 1920 * 1080 THEN 2
  ELSE 1

\* C30: two changeStreamResolution calls with resolutions of different tiers
\* never draw the same bitrate (stated for two consecutive calls on one
\* record).
C30_TierRangesAreDisjoint ==
  (lastCall.op = "changeStreamResolution" /\ Known(lastCall.id)) =>
    \A n \in 1..Len(lastCall.prev) :
      PixelTier(lastCall.prev[n].res) # PixelTier(lastCall.res) =>
        RecordOf(lastCall.id).bitrate # lastCall.prev[n].bitrate

(***************************************************************************)
(* Properties of the tick as a whole.                                      *)
(***************************************************************************)
\* C31: a tick leaves the array and, of every record, all fields but
\* audio.levels, bitrate, latency and lastUpdate as they were, and gives a
\* hidden or muted record the update it would give the same record were it
\* visible and unmuted.
C31_TickChangesOnlyTelemetry ==
  [][now' # now =>
       /\ streams' = streams
       /\ \A i \in 1..Len(streams) :
            LET old == heap[streams[i]]
                new == heap'[streams[i]]
                shown == [old EXCEPT !.visible = TRUE, !.audio.muted = FALSE]
            IN  /\ new = [old EXCEPT !.audio.levels = new.audio.levels,
                                     !.bitrate = new.bitrate,
                                     !.latency = new.latency,
                                     !.lastUpdate = new.lastUpdate]
                /\ \E d \in FrameDraws :
                     new = [UpdateStream(shown, d, clock') EXCEPT
                              !.visible = old.visible,
                              !.audio.muted = old.audio.muted]]_vars

\* A record hidden and then muted before the first tick, whose levels the
\* ticks have moved.
C31_Witness ==
  /\ lastCall.op = "toggleStreamMute"
  /\ lastCall.at = 0
  /\ now >= 1
  /\ \E i \in 1..Len(streams) :
       /\ heap[streams[i]].id = lastCall.id
       /\ heap[streams[i]].audio.muted
       /\ ~heap[streams[i]].visible
       /\ heap[streams[i]].lastUpdate = now
       /\ heap[streams[i]].audio.levels \notin {PlainSeed.levels, EdgeSeed.levels}

(***************************************************************************)
(* Properties of the running service.                                      *)
(***************************************************************************)
\* The observer has an entry in this.listeners.
Listening(cb) == \E i \in 1..Len(listeners) : listeners[i].cb = cb

\* No unsubscribe closure of the observer has been called.
NeverUnsubscribed(cb) == \A t \in cancelled : issued[t] # cb

\* The observer is being called by the broadcast.
Called(cb) == pc = "callback" /\ Current.cb = cb

\* An observer that is subscribed and never unsubscribed is called in the end:
\* stated for the ticks of a run, of which more must be to come than entries
\* stand before the observer's.
C32_EventuallyCalled ==
  \A cb \in Callbacks :
    (Listening(cb) /\ NeverUnsubscribed(cb) /\ now + IndexOf(listeners, cb) <= MaxTicks)
      ~> (Called(cb) \/ ~NeverUnsubscribed(cb))

\* The broadcast of a tick ends only when every observer that was subscribed
\* when the tick began, and was never unsubscribed, has been called in it.
C32_CalledInEveryBroadcast ==
  [][(pc = "callback" /\ pc' = "idle") =>
       \A i \in 1..Len(atStart) :
         (\A t \in cancelled' : issued[t] # atStart[i].cb) =>
           \E j \in 1..Len(log) : log[j].cb = atStart[i].cb]_vars

\* C32: while the service is not shut down and no observer raises, the timer
\* keeps firing: every observer that is subscribed and never unsubscribed is
\* called eventually, and is called in the broadcast of every tick after that.
C32_TimerKeepsCallingObservers ==
  /\ C32_EventuallyCalled
  /\ C32_CalledInEveryBroadcast

\* C33: in every state at most one interval timer is active, an active timer
\* is the one whose handle the service holds, and once destroy has been called
\* none is active.
C33_AtMostOneTimer ==
  /\ Cardinality(timers) <= 1
  /\ \A h \in timers : h = updateInterval
  /\ lastCall.op = "destroy" => (timers = {} /\ updateInterval = 0)

\* After ticks and a destroy, an observer has been subscribed again.
C33_Witness ==
  /\ lastCall.op = "destroy"
  /\ now >= 1
  /\ listeners # << >>
  /\ timers = {}

(***************************************************************************)
(* Properties of the level display.                                        *)
(***************************************************************************)
\* C34: rendered with muted false, audioLevels has exactly 4 values: value i
\* is the i-th level of the input, brought to 0 when below 0 and to 100 when
\* above 100, for the first 4 levels of the input, and 0 where the input has
\* no i-th level.
C34_NormalizationGivesFourClampedLevels ==
  [][(RenderBars /\ ~heap[streams[1]].audio.muted) =>
       LET levels == heap[streams[1]].audio.levels
       IN  /\ Len(bars') = 4
           /\ \A i \in 1..4 :
                bars'[i] = IF i > Len(levels) THEN 0
                           ELSE IF levels[i] < 0 THEN 0
                           ELSE IF levels[i] > 100 THEN 100
                           ELSE levels[i]]_vars

\* The bars of the one-entry input [42], unmuted.
C34_Witness ==
  /\ heap[streams[1]].audio.levels = <<42>>
  /\ ~heap[streams[1]].audio.muted
  /\ bars = <<42, 0, 0, 0>>

(***************************************************************************)
(* Properties of a broadcast whose observers call the hub.                 *)
(***************************************************************************)
\* The number of entries of the array that hold the observer.
Count(arr, cb) == Cardinality({i \in 1..Len(arr) : arr[i].cb = cb})

\* C35: when an unsubscribe closure was called during a broadcast, every
\* observer that was registered when the broadcast began, and of which no
\* closure was ever called, has been called once for each of its
\* registrations by the time the broadcast ends.
C35_UnsubscribeDuringBroadcastSkipsNobody ==
  [][(CallbackReturns /\ pc' = "idle" /\ detached = << >> /\ cancelledNow # {}) =>
       \A cb \in Callbacks :
         (Count(atStart, cb) >= 1 /\ NeverUnsubscribed(cb)) =>
           Count(log, cb) = Count(atStart, cb)]_vars

(***************************************************************************)
(* Properties of the snapshot a broadcast delivers.                        *)
(***************************************************************************)
\* The array an observer is handed: listener(this.streams).
Snapshot == Deref(LiveRef)

\* C36: while an observer is called, the array it was handed holds the very
\* record getStream(id) returns for the target of the last mutation call, and
\* that record shows what the call set: the flipped audio.muted, the flipped
\* visible, the new sourceId with the label of a source of the table as name,
\* or the new resolution.
C36_BroadcastShowsLastMutation ==
  (/\ pc = "callback"
   /\ lastCall.op \in {"toggleStreamMute", "toggleStreamVisibility",
                       "changeStreamSource", "changeStreamResolution"}
   /\ Known(lastCall.id)) =>
    \E i \in 1..Len(Snapshot) :
      LET rec == heap[Snapshot[i]]
      IN  /\ Snapshot[i] = getStream(lastCall.id)
          /\ lastCall.op = "toggleStreamMute" => rec.audio.muted = ~lastCall.was
          /\ lastCall.op = "toggleStreamVisibility" => rec.visible = ~lastCall.was
          /\ lastCall.op = "changeStreamSource" =>
               /\ rec.sourceId = lastCall.src
               /\ lastCall.src \in DOMAIN sourceNames => rec.name = sourceNames[lastCall.src]
          /\ lastCall.op = "changeStreamResolution" => rec.resolution = lastCall.res

\* The observer is called with a record that was muted, re-sourced and re-sized
\* and, last, hidden since the tick before.
C36_Witness ==
  /\ pc = "callback"
  /\ now >= 1
  /\ lastCall.op = "toggleStreamVisibility"
  /\ lastCall.was
  /\ \E i \in 1..Len(Snapshot) :
       /\ heap[Snapshot[i]].id = lastCall.id
       /\ ~heap[Snapshot[i]].visible
       /\ heap[Snapshot[i]].audio.muted
       /\ heap[Snapshot[i]].sourceId = "gfx-01"
       /\ heap[Snapshot[i]].name = sourceNames["gfx-01"]
       /\ heap[Snapshot[i]].resolution = [width |-> 3840, height |-> 2160]
       /\ heap[Snapshot[i]].lastUpdate = clock

(***************************************************************************)
(* Properties of the service after destroy.                                *)
(***************************************************************************)
\* Once destroy has been called the timer does not fire and no observer is
\* called, whether it was subscribed before the destroy or after it.
C37_NoCallAfterDestroy ==
  [][lastCall.op = "destroy" =>
       /\ now' = now
       /\ log' = log \/ log' = << >>]_vars

\* Once destroy has been called, an unsubscribe closure that a subscribe call
\* before the destroy returned leaves this.listeners as it is.
C37_OldClosureIsNoOp ==
  [][\A t \in 1..Len(issued) :
       (lastCall.op = "destroy" /\ t <= lastCall.subs /\ unsubscribe(t)) =>
         listeners' = listeners]_vars

\* C37: after destroy no tick and no broadcast occurs, an observer subscribed
\* after it is never called, and the unsubscribe closures obtained before it
\* remove no observer subscribed after it.
C37_ShutdownIsFinal ==
  /\ C37_NoCallAfterDestroy
  /\ C37_OldClosureIsNoOp

(***************************************************************************)
(* Properties of the status of the records.                                *)
(***************************************************************************)
\* No step changes the status of a record, which is active or inactive, and
\* the count of active streams lies between 0 and the count of streams.
C38_StatusIsFixed ==
  /\ [][\A r \in DOMAIN heap : heap'[r].status = heap[r].status]_vars
  /\ [](\A i \in 1..Len(streams) : heap[streams[i]].status \in {"active", "inactive"})
  /\ [](0 <= activeStreamsCount /\ activeStreamsCount <= totalStreamsCount)

LeavesTheRest(id) ==
  /\ streams' = streams
  /\ \A r \in DOMAIN heap : heap[r].id # id => heap'[r] = heap[r]
  /\ UNCHANGED <<selectedStreamId, currentLayout, globalMute, masterVolume>>

\* C39: a mutator called with the id of a record changes, of that record, at
\* most its own fields (toggleStreamMute audio.muted, toggleStreamVisibility
\* visible, changeStreamSource sourceId and name, changeStreamResolution
\* resolution and bitrate) and leaves every other record, the selection, the
\* active layout, the global-mute flag and the master volume as they were.
C39_MutatorChangesOnlyItsOwnFields ==
  [][LET id == streamConfigs[1].id
         old == heap[FindStream(id)]
         new == heap'[FindStream(id)]
     IN  /\ toggleStreamMute(id) =>
              /\ new = [old EXCEPT !.audio.muted = new.audio.muted]
              /\ LeavesTheRest(id)
         /\ toggleStreamVisibility(id) =>
              /\ new = [old EXCEPT !.visible = new.visible]
              /\ LeavesTheRest(id)
         /\ (\E src \in SourceIds : changeStreamSource(id, src)) =>
              /\ new = [old EXCEPT !.sourceId = new.sourceId, !.name = new.name]
              /\ LeavesTheRest(id)
         /\ (\E res \in MenuResolutions, rand \in Rands :
                changeStreamResolution(id, res, rand)) =>
              /\ new = [old EXCEPT !.resolution = new.resolution, !.bitrate = new.bitrate]
              /\ LeavesTheRest(id)]_vars

\* The first record has just been re-sized while it is selected, hidden and
\* re-sourced, under another layout, another volume and global mute.
C39_Witness ==
  /\ lastCall.op = "changeStreamResolution"
  /\ lastCall.res = [width |-> 854, height |-> 480]
  /\ heap[streams[1]].resolution = lastCall.res
  /\ heap[streams[1]].sourceId = "gfx-01"
  /\ ~heap[streams[1]].visible
  /\ selectedStreamId = streamConfigs[1].id
  /\ currentLayout = GRID_LAYOUTS[2]
  /\ masterVolume = 40
  /\ globalMute
  /\ \A i \in 1..Len(streams) : heap[streams[i]].audio.muted

=============================================================================
